---- MODULE Spec2Model ----
(***************************************************************************)
(* Campaign synthesis orchestrator (intent parser Lambda) and the helpers  *)
(* it is built from: the JSON extractor, the fallback campaign builder,    *)
(* the synthesis/merge step, the three sub-capability Lambdas and the      *)
(* DynamoDB product table they share.                                      *)
(*                                                                         *)
(* Text is modelled as a sequence of lexical tokens.  A JSON value is the  *)
(* token sequence that spells it; commas and colons are implied by the     *)
(* grammar.  Braces occur only as the tokens "{" and "}", so a regular     *)
(* expression over braces acts on token positions exactly as it acts on    *)
(* character positions.                                                    *)
(***************************************************************************)
EXTENDS Integers, Sequences, FiniteSets, TLC

VARIABLES
    \* one run of the intent parser's lambda_handler
    request,            \* the request body
    pc,                 \* the external call the handler makes next
    product_id,         \* tier2_fail_safe_orchestration's local product_id
    user_id,            \* ... and its local user_id
    aggregated_data,    \* ... and the item it read from the table
    outcome,            \* the response body returned to the caller
    calls,              \* the external calls made so far, in order
    \* the world around it
    store,              \* the DynamoDB products table
    now,                \* the clock the Lambdas stamp records with
    rate_limited,       \* how many agent invocations are rate-limited first
    agent_final,        \* the agent's answer once it is no longer rate-limited
    \* a helper function applied on its own
    arg,                \* input handed to the function under study
    ret,                \* what it returned
    called              \* which function has been applied ("none" before)

orchVars == <<request, pc, product_id, user_id, aggregated_data, outcome, calls,
              store, now, rate_limited, agent_final>>
fnVars == <<arg, ret, called>>
vars == <<orchVars, fnVars>>

---------------------------------------------------------------------------
(* Tokens                                                                  *)

Tok(k, a, b) == [k |-> k, a |-> a, b |-> b]
LB == Tok("{", "", <<>>)
RB == Tok("}", "", <<>>)
LK == Tok("[", "", <<>>)
RK == Tok("]", "", <<>>)
Key(name) == Tok("key", name, <<>>)
Str(s) == Tok("str", s, <<>>)
\* an f-string: the template tmpl with the strings xs interpolated
FStr(tmpl, xs) == Tok("str", tmpl, xs)
Num(n) == Tok("num", n, <<>>)
Null == Tok("null", "", <<>>)
Prose == Tok("prose", "text", <<>>)
Fence == Tok("prose", "fence", <<>>)

\* the marker for "key not present" in a dict: no JSON value is the empty text
Absent == <<>>

required_keys ==
    {"product", "content_ideas", "campaigns", "generated_assets",
     "related_youtube_videos", "platform_recommendations", "market_insights"}

\* a key the schema does not ask for, so that objects can carry extras
ExtraKeys == {"notes"}

CampaignKeys == required_keys \cup ExtraKeys

\* one string that has every required key as a substring
AllNamesString ==
    "product content_ideas campaigns generated_assets related_youtube_videos platform_recommendations market_insights"

NoItems == [k \in CampaignKeys |-> Absent]

\* a parsed JSON value: t is its Python type; items the top-level members of
\* a dict, elems the elements of a list, s the content of a str
Data(t, items, elems, s) == [t |-> t, items |-> items, elems |-> elems, s |-> s]
None == Data("none", NoItems, <<>>, "")

---------------------------------------------------------------------------
(* json.loads on token sequences                                           *)

RECURSIVE EndOfValue(_, _), EndOfMembers(_, _), EndOfElems(_, _)

\* the position after the JSON value that starts at toks[i]; 0 if none does
EndOfValue(toks, i) ==
    IF i > Len(toks) THEN 0
    ELSE CASE toks[i].k \in {"str", "num", "null"} -> i + 1
           [] toks[i].k = "{" -> EndOfMembers(toks, i + 1)
           [] toks[i].k = "[" -> EndOfElems(toks, i + 1)
           [] OTHER -> 0

EndOfMembers(toks, j) ==
    IF j > Len(toks) THEN 0
    ELSE IF toks[j].k = "}" THEN j + 1
    ELSE IF toks[j].k = "key"
         THEN LET e == EndOfValue(toks, j + 1)
              IN  IF e = 0 THEN 0 ELSE EndOfMembers(toks, e)
         ELSE 0

EndOfElems(toks, j) ==
    IF j > Len(toks) THEN 0
    ELSE IF toks[j].k = "]" THEN j + 1
    ELSE LET e == EndOfValue(toks, j)
         IN  IF e = 0 THEN 0 ELSE EndOfElems(toks, e)

RECURSIVE MembersFrom(_, _, _)
\* top-level members of the dict whose members start at toks[j]; a repeated
\* key keeps its last value, as json.loads does
MembersFrom(toks, j, acc) ==
    IF toks[j].k = "}" THEN acc
    ELSE LET e == EndOfValue(toks, j + 1)
         IN  MembersFrom(toks, e,
                 IF toks[j].a \in DOMAIN acc
                 THEN [acc EXCEPT ![toks[j].a] = SubSeq(toks, j + 1, e - 1)]
                 ELSE acc)

RECURSIVE ElemsFrom(_, _, _)
ElemsFrom(toks, j, acc) ==
    IF toks[j].k = "]" THEN acc
    ELSE LET e == EndOfValue(toks, j)
         IN  ElemsFrom(toks, e, Append(acc, SubSeq(toks, j, e - 1)))

\* [ok |-> FALSE] stands for json.JSONDecodeError
json_loads(text) ==
    IF Len(text) = 0 \/ EndOfValue(text, 1) # Len(text) + 1
    THEN [ok |-> FALSE, data |-> None]
    ELSE [ok |-> TRUE,
          data |-> CASE text[1].k = "{" ->
                            Data("dict", MembersFrom(text, 2, NoItems), <<>>, "")
                     [] text[1].k = "[" ->
                            Data("list", NoItems, ElemsFrom(text, 2, <<>>), "")
                     [] text[1].k = "str" -> Data("str", NoItems, <<>>, text[1].a)
                     [] text[1].k = "num" -> Data("num", NoItems, <<>>, text[1].a)
                     [] OTHER -> Data("null", NoItems, <<>>, "")]

\* Python's (key in data); on an int or None it raises TypeError, here "raise"
KeyIn(key, data) ==
    CASE data.t = "dict" -> IF data.items[key] # Absent THEN "true" ELSE "false"
      [] data.t = "list" ->
            IF \E i \in 1..Len(data.elems) : data.elems[i] = <<Str(key)>>
            THEN "true" ELSE "false"
      [] data.t = "str" ->
            IF data.s = key \/ data.s = AllNamesString THEN "true" ELSE "false"
      [] OTHER -> "raise"

\* all(key in data for key in required_keys), inside try/except: pass
HasAllRequiredKeys(data) == \A key \in required_keys : KeyIn(key, data) = "true"

\* re.search with the greedy DOTALL pattern: from the first "{" to the last "}"
BracePositions(text, k) == {i \in 1..Len(text) : text[i].k = k}
Min(S) == CHOOSE x \in S : \A y \in S : x <= y
Max(S) == CHOOSE x \in S : \A y \in S : x >= y

GreedyBraceMatch(text) ==
    LET opens == BracePositions(text, "{")
        closes == BracePositions(text, "}")
    IN  IF opens = {} \/ closes = {} \/ Max(closes) < Min(opens)
        THEN [found |-> FALSE, span |-> <<>>]
        ELSE [found |-> TRUE, span |-> SubSeq(text, Min(opens), Max(closes))]

extract_campaign_json(response_text) ==
    LET direct == json_loads(response_text)
    IN  IF direct.ok /\ HasAllRequiredKeys(direct.data)
        THEN direct.data
        ELSE LET json_match == GreedyBraceMatch(response_text)
                 inner == json_loads(json_match.span)
             IN  IF json_match.found /\ inner.ok /\ HasAllRequiredKeys(inner.data)
                 THEN inner.data
                 ELSE None

---------------------------------------------------------------------------
(* JSON values as Python sees them                                         *)

RECURSIVE Flatten(_)
Flatten(seqs) == IF seqs = <<>> THEN <<>> ELSE Head(seqs) \o Flatten(Tail(seqs))

Member(name, value) == <<Key(name)>> \o value
Obj(members) == <<LB>> \o Flatten(members) \o <<RB>>
List(elems) == <<LK>> \o Flatten(elems) \o <<RK>>

\* type(value) of a JSON value given as its tokens
TypeOf(value) ==
    CASE value[1].k = "{" -> "dict"
      [] value[1].k = "[" -> "list"
      [] OTHER -> value[1].k

\* bool(value): empty containers, "", 0 and None are false
TruthyValue(value) ==
    /\ value # Absent
    /\ value \notin {<<LB, RB>>, <<LK, RK>>, <<Null>>, <<Num("0")>>, <<Str("")>>}

\* bool(data) of a parsed value, None included
Truthy(data) ==
    CASE data.t = "dict" -> \E k \in DOMAIN data.items : data.items[k] # Absent
      [] data.t = "list" -> data.elems # <<>>
      [] data.t = "str" -> data.s # ""
      [] data.t = "num" -> data.s # "0"
      [] OTHER -> FALSE

\* the elements of a list value, and value.get(name) of a dict value
ElemsOf(value) == ElemsFrom(value, 2, <<>>)
MemberOf(value, name) == MembersFrom(value, 2, [k \in {name} |-> Absent])[name]

\* item.get(field, default) on a stored item
Get(item, field, default) ==
    IF field \in DOMAIN item /\ item[field] # Absent THEN item[field] ELSE default

\* value.get(name, default) on a dict given as its tokens
GetOf(value, name, default) ==
    IF MemberOf(value, name) # Absent THEN MemberOf(value, name) ELSE default

\* what an f-string shows for a value: a str as it is, anything else its repr
ToStr(value) == IF Len(value) = 1 /\ value[1].k = "str" THEN value[1].a ELSE "repr"

Take(seq, n) == SubSeq(seq, 1, IF Len(seq) < n THEN Len(seq) ELSE n)

---------------------------------------------------------------------------
(* Texts an inference service can answer with                              *)

\* what a model writes under each key when it follows the prompt's schema
AiValue(name) ==
    CASE name \in {"content_ideas", "campaigns", "related_youtube_videos"} ->
            List(<< Obj(<< Member("name", <<Str("ai")>>) >>) >>)
      [] name = "product" ->
            Obj(<< Member("description", <<Str("ai")>>),
                   Member("image", Obj(<< Member("labels", List(<< <<Str("ai")>> >>)) >>)) >>)
      [] OTHER -> Obj(<< Member(name, List(<< <<Str("ai")>> >>)) >>)

KeyOrder ==
    <<"product", "content_ideas", "campaigns", "generated_assets",
      "related_youtube_videos", "platform_recommendations", "market_insights", "notes">>

\* the object spelling value[k] under every key k of keys, in schema order
RECURSIVE MembersOf(_, _, _)
MembersOf(keys, value, i) ==
    IF i > Len(KeyOrder) THEN <<>>
    ELSE (IF KeyOrder[i] \in keys THEN Member(KeyOrder[i], value[KeyOrder[i]]) ELSE <<>>)
         \o MembersOf(keys, value, i + 1)

ObjectText(keys, value) == <<LB>> \o MembersOf(keys, value, 1) \o <<RB>>

AiValues == [k \in CampaignKeys |-> IF k \in required_keys THEN AiValue(k) ELSE <<Str("ai")>>]

FullObject == ObjectText(required_keys, AiValues)

\* the seven key names as a JSON list of strings
NamesList == List([i \in 1..7 |-> <<Str(KeyOrder[i])>>])

\* bodies: what stands where the campaign object is expected
ExtractBodies ==
    {FullObject,
     ObjectText(CampaignKeys, AiValues),
     ObjectText({}, AiValues),
     ObjectText(required_keys, [AiValues EXCEPT !["content_ideas"] = <<Str("ai")>>]),
     ObjectText(required_keys, [AiValues EXCEPT !["campaigns"] = <<LK, RK>>]),
     NamesList,
     <<Str(AllNamesString)>>,
     <<Num("5")>>,
     <<Null>>,
     List(<<FullObject>>),
     SubSeq(FullObject, 1, Len(FullObject) - 1),
     <<>>}
    \cup {ObjectText(required_keys \ {k}, AiValues) : k \in required_keys}

\* commentary before and after the body; some of it has braces of its own
Prefixes == {<<>>, <<Prose>>, <<Prose, Fence>>, <<Prose, LB, Prose, RB, Prose>>}
Suffixes == {<<>>, <<Prose>>, <<Fence, Prose>>, <<Prose, LB, Prose, RB>>}

ExtractTexts == {p \o b \o s : p \in Prefixes, b \in ExtractBodies, s \in Suffixes}

---------------------------------------------------------------------------
(* create_fallback_campaign: the campaign built from the stored record     *)

ItemFields ==
    {"product_id", "user_id", "product_name", "product_description",
     "product_category", "s3_bucket", "s3_key", "s3_url", "image_key",
     "image_labels", "total_labels_detected", "high_confidence_labels_count",
     "rekognition_metadata", "created_at", "updated_at", "lambda_request_id",
     "analysis_status",
     "youtube_videos", "market_insights", "target_demographics",
     "trending_keywords", "content_themes", "enrichment_status",
     "enrichment_request_id",
     "communication_guidelines", "cultural_sensitivity_notes",
     "cultural_status", "cultural_request_id"}

\* response.get('Item', {}) of a key that holds nothing
NoItem == [f \in ItemFields |-> Absent]

RECURSIVE LabelStrings(_)
\* the names of dict labels and the str labels, in order
LabelStrings(labels) ==
    IF labels = <<>> THEN <<>>
    ELSE LET label == Head(labels)
             rest == LabelStrings(Tail(labels))
         IN  IF TypeOf(label) = "dict" /\ MemberOf(label, "name") # Absent
             THEN <<MemberOf(label, "name")>> \o rest
             ELSE IF TypeOf(label) = "str" THEN <<label>> \o rest
             ELSE rest

RECURSIVE FormattedVideos(_, _)
FormattedVideos(videos, product_name) ==
    IF videos = <<>> THEN <<>>
    ELSE LET video == Head(videos)
             rest == FormattedVideos(Tail(videos), product_name)
         IN  IF TypeOf(video) = "dict"
             THEN << Obj(<< Member("title",
                                IF MemberOf(video, "title") # Absent
                                THEN MemberOf(video, "title")
                                ELSE <<FStr("{product_name} Related Video", <<product_name>>)>>),
                            Member("channel",
                                IF MemberOf(video, "channel") # Absent
                                THEN MemberOf(video, "channel")
                                ELSE <<Str("Product Review Channel")>>),
                            Member("url",
                                IF MemberOf(video, "url") # Absent
                                THEN MemberOf(video, "url")
                                ELSE <<Str("https://www.youtube.com/watch?v=dQw4w9WgXcQ")>>),
                            Member("views",
                                IF MemberOf(video, "views") # Absent
                                THEN MemberOf(video, "views")
                                ELSE <<Num("10000")>>) >>) >> \o rest
             ELSE rest

PlaceholderVideos(product_name) ==
    << Obj(<< Member("title", <<FStr("{product_name} Review & Features", <<product_name>>)>>),
              Member("channel", <<Str("ProductReviews")>>),
              Member("url", <<Str("https://www.youtube.com/watch?v=dQw4w9WgXcQ")>>),
              Member("views", <<Num("15000")>>) >>),
       Obj(<< Member("title", <<FStr("Unboxing the New {product_name}", <<product_name>>)>>),
              Member("channel", <<Str("TechUnboxing")>>),
              Member("url", <<Str("https://www.youtube.com/watch?v=xvFZjo5PgG0")>>),
              Member("views", <<Num("8500")>>) >>) >>

\* [raised |-> TRUE] stands for the AttributeError / TypeError the body raises
create_fallback_campaign(aggregated_record, campaign_objectives) ==
    LET product_name == Get(aggregated_record, "product_name", <<Str("Product")>>)
        name == ToStr(product_name)
        product_description ==
            Get(aggregated_record, "product_description",
                <<FStr("{product_name} - innovative product", <<name>>)>>)
        image_labels == Get(aggregated_record, "image_labels", <<LK, RK>>)
        product_category == Get(aggregated_record, "product_category", <<Str("General")>>)
        category == ToStr(product_category)
        s3_key == Get(aggregated_record, "s3_key",
                      Get(aggregated_record, "image_key", <<Str("unknown")>>))
        youtube_videos == Get(aggregated_record, "youtube_videos", <<LK, RK>>)
        found_labels ==
            IF TypeOf(image_labels) = "list"
            THEN LabelStrings(Take(ElemsOf(image_labels), 10))
            ELSE <<>>
        label_strings ==
            IF found_labels = <<>>
            THEN <<product_category, <<Str("Quality")>>, <<Str("Innovation")>>>>
            ELSE found_labels
        found_videos ==
            IF TruthyValue(youtube_videos) /\ TypeOf(youtube_videos) = "list"
            THEN FormattedVideos(Take(ElemsOf(youtube_videos), 5), name)
            ELSE <<>>
        formatted_videos ==
            IF found_videos = <<>> THEN PlaceholderVideos(name) ELSE found_videos
        \* product_description[:200] needs a str or a list
        bad_description == TypeOf(product_description) \in {"null", "num", "dict"}
        \* campaign_objectives.get(...) needs a dict
        bad_objectives == TypeOf(campaign_objectives) # "dict"
        duration ==
            IF MemberOf(campaign_objectives, "campaign_duration") # Absent
            THEN MemberOf(campaign_objectives, "campaign_duration")
            ELSE <<Str("30 days")>>
        Idea(platform, topic, tags) ==
            Obj(<< Member("platform", <<Str(platform)>>),
                   Member("topic", <<FStr(topic, <<name>>)>>),
                   Member("hashtags", List(tags \o << <<FStr("#{product_category}", <<category>>)>> >>)) >>)
        Campaign(title, dur, platforms) ==
            Obj(<< Member("name", <<FStr(title, <<name>>)>>),
                   Member("duration", dur),
                   Member("platforms", List(platforms)) >>)
        section ==
            [k \in CampaignKeys |->
                CASE k = "product" ->
                        Obj(<< Member("description",
                                   <<FStr("{product_name} - {product_description[:200]}",
                                          <<name, ToStr(product_description)>>)>>),
                               Member("image",
                                   Obj(<< Member("public_url",
                                              <<FStr("https://product-images-bucket-v2.s3.amazonaws.com/{s3_key}",
                                                     <<ToStr(s3_key)>>)>>),
                                          Member("s3_key", s3_key),
                                          Member("labels", List(label_strings)) >>)) >>)
                  [] k = "content_ideas" ->
                        List(<< Idea("Instagram", "Showcase {product_name} lifestyle integration",
                                     << <<Str("#Innovation")>> >>),
                                Idea("TikTok", "{product_name} unboxing and first impressions",
                                     << <<Str("#Unboxing")>> >>),
                                Idea("YouTube", "Complete {product_name} review and demonstration",
                                     << <<Str("#ProductReview")>> >>) >>)
                  [] k = "campaigns" ->
                        List(<< Campaign("{product_name} Viral Marketing Campaign", duration,
                                         << <<Str("Instagram")>>, <<Str("TikTok")>>, <<Str("YouTube")>> >>),
                                Campaign("{product_name} Community Building Initiative",
                                         <<Str("45 days")>>,
                                         << <<Str("Instagram")>>, <<Str("Facebook")>>, <<Str("LinkedIn")>> >>) >>)
                  [] k = "generated_assets" ->
                        Obj(<< Member("image_prompts",
                                   List(<< <<FStr("A sleek {product_name} displayed ...", <<name>>)>> >>)),
                               Member("video_scripts",
                                   List(<< <<FStr("Quick tour of {product_name} features!", <<name>>)>> >>)),
                               Member("email_templates",
                                   List(<< <<FStr("Discover the Power of {product_name}", <<name>>)>> >>)),
                               Member("blog_outlines",
                                   List(<< <<FStr("Why {product_name} is Revolutionizing {product_category}",
                                                  <<name, category>>)>> >>)) >>)
                  [] k = "related_youtube_videos" -> List(formatted_videos)
                  [] k = "platform_recommendations" ->
                        Obj(<< Member("primary_platforms",
                                   List(<< <<Str("Instagram")>>, <<Str("TikTok")>>, <<Str("YouTube")>> >>)),
                               Member("rationale",
                                   <<FStr("Selected platforms based on ... {product_category} ...",
                                          <<category>>)>>) >>)
                  [] k = "market_insights" ->
                        Obj(<< Member("trending_content_types", List(<< <<Str("Unboxing videos")>> >>)),
                               Member("cultural_considerations",
                                   List(<< <<Str("Adapt messaging for regional preferences")>> >>)),
                               Member("audience_preferences",
                                   List(<< <<Str("Short-form video content")>> >>)) >>)
                  [] OTHER -> Absent]
    IN  IF bad_description \/ bad_objectives
        THEN [raised |-> TRUE, campaign |-> None]
        ELSE [raised |-> FALSE, campaign |-> Data("dict", section, <<>>, "")]

---------------------------------------------------------------------------
(* synthesize_with_bedrock: extraction, then the merge with the fallback   *)

SynthFailed == [success |-> FALSE, campaign |-> None]

\* a reconciler that merges into the fallback campaign whatever the
\* candidate holds
reconcile_always_merging(campaign, aggregated_record, campaign_objectives) ==
    LET built == create_fallback_campaign(aggregated_record, campaign_objectives)
    IN  IF Truthy(campaign) /\ campaign.t = "dict" /\ ~built.raised
        THEN [success |-> TRUE,
              campaign |-> Data("dict",
                  [key \in CampaignKeys |->
                      IF key \in required_keys /\ TruthyValue(campaign.items[key])
                      THEN campaign.items[key]
                      ELSE built.campaign.items[key]], <<>>, "")]
        ELSE SynthFailed

\* lines 585-616: what becomes of the extractor's result
reconcile(campaign, aggregated_record, campaign_objectives) ==
    LET built == create_fallback_campaign(aggregated_record, campaign_objectives)
        \* fallback[key] = campaign[key] for the keys the candidate holds
        \* with a true value; the candidate's other keys are dropped
        merged ==
            [key \in CampaignKeys |->
                IF key \in required_keys
                   /\ KeyIn(key, campaign) = "true"
                   /\ TruthyValue(campaign.items[key])
                THEN campaign.items[key]
                ELSE built.campaign.items[key]]
    IN  IF Truthy(campaign)
        THEN IF HasAllRequiredKeys(campaign)
             THEN [success |-> TRUE, campaign |-> campaign]
             ELSE IF built.raised
                  THEN SynthFailed
                  ELSE IF campaign.t = "dict"
                  THEN [success |-> TRUE, campaign |-> Data("dict", merged, <<>>, "")]
                  \* all(...) raises on a number; campaign[key] raises on a
                  \* list or str that holds one of the key names
                  ELSE IF \E key \in required_keys : KeyIn(key, campaign) # "false"
                  THEN SynthFailed
                  ELSE [success |-> TRUE, campaign |-> built.campaign]
        ELSE IF built.raised
             THEN SynthFailed
             ELSE [success |-> TRUE, campaign |-> built.campaign]

\* response: what bedrock-runtime invoke_model did; raised stands for any
\* exception of the call or of reading the response body
synthesize_with_bedrock(aggregated_record, campaign_objectives, response) ==
    IF response.raised
    THEN SynthFailed
    ELSE reconcile(extract_campaign_json(response.text),
                   aggregated_record, campaign_objectives)

---------------------------------------------------------------------------
(* The products table and the three sub-capability Lambdas                 *)

UserIds == {"anonymous", "u1"}
\* uuid4 values, in the order they are drawn
Uuids == <<"p1", "p2">>
ProductIds == {Uuids[i] : i \in 1..Len(Uuids)}
StoreKeys == ProductIds \X UserIds

\* str(uuid.uuid4()): an id no record of the table has
uuid4(st) ==
    Uuids[Cardinality({pid \in ProductIds : \E uid \in UserIds : st[<<pid, uid>>] # NoItem}) + 1]

\* datetime.utcnow().isoformat() at successive clock readings
Times == <<"t1", "t2", "t3", "t4", "t5">>
Timestamp(n) == <<Str(Times[n])>>

\* a str that is a "/"-separated path: a is the string, b its segments
PathStr(string, segments) == Tok("str", string, segments)
\* string.split('/')
SplitSlash(tok) == IF tok.b = <<>> THEN <<tok.a>> ELSE tok.b

\* the body a Lambda answers with: "" stands for a key the body lacks
Body(success, pid, uid, error) ==
    [success |-> success, product_id |-> pid, user_id |-> uid, error |-> error]
\* create_error_response(message)
ErrorBody(error) == Body(FALSE, "", "", error)

\* what Rekognition detects in the image
DetectedLabels ==
    List(<< Obj(<< Member("name", <<Str("Bottle")>>), Member("confidence", <<Num("99.1")>>) >>) >>)

create_product_record(product_info, s3_info, pid, request_id, timestamp) ==
    LET s3_key_parts == SplitSlash(s3_info["key"][1])
        uid == IF Len(s3_key_parts) > 1 THEN s3_key_parts[2] ELSE "anonymous"
    IN  [NoItem EXCEPT
            !["product_id"] = <<Str(pid)>>,
            !["user_id"] = <<Str(uid)>>,
            !["product_name"] = GetOf(product_info, "name", <<Str("Unknown Product")>>),
            !["product_description"] = GetOf(product_info, "description", <<Str("")>>),
            !["product_category"] = GetOf(product_info, "category", <<Str("")>>),
            !["s3_bucket"] = s3_info["bucket"],
            !["s3_key"] = s3_info["key"],
            !["s3_url"] = <<FStr("s3://{bucket}/{key}",
                                 <<ToStr(s3_info["bucket"]), ToStr(s3_info["key"])>>)>>,
            !["image_labels"] = DetectedLabels,
            !["total_labels_detected"] = <<Num("1")>>,
            !["high_confidence_labels_count"] = <<Num("1")>>,
            !["rekognition_metadata"] = Obj(<< Member("request_id", <<Str("rek")>>) >>),
            !["created_at"] = timestamp,
            !["updated_at"] = timestamp,
            !["lambda_request_id"] = <<Str(request_id)>>,
            !["analysis_status"] = <<Str("image_analyzed")>>]

\* The image-analysis Lambda on a direct invocation.  env is what its
\* dependencies do: "ok", or "handler_error" when S3, Rekognition or the
\* table fails it.  Gives the response body and the table afterwards.
handle_image_analysis(parameters, env, st, pid, timestamp) ==
    LET \* the parameters arrive as JSON text; anything but an object is {}
        product_info == IF TypeOf(parameters.product_info) = "dict"
                        THEN parameters.product_info ELSE <<LB, RB>>
        s3_info == IF TypeOf(parameters.s3_info) = "dict"
                   THEN parameters.s3_info ELSE <<LB, RB>>
        \* x.get(k) or default: a false value gives the default too
        s3_key == IF TruthyValue(MemberOf(s3_info, "key"))
                  THEN MemberOf(s3_info, "key") ELSE <<Str("")>>
        bucket == IF TruthyValue(MemberOf(s3_info, "bucket"))
                  THEN MemberOf(s3_info, "bucket")
                  ELSE <<Str("degenerals-mi-dev-images")>>
        product_record ==
            create_product_record(product_info,
                                  [bucket |-> bucket, key |-> s3_key],
                                  pid, "image-request", timestamp)
        key == <<pid, product_record["user_id"][1].a>>
    IN  IF ~TruthyValue(s3_key)
        THEN [body |-> ErrorBody("S3 key is required"), store |-> st]
        ELSE IF env # "ok"
        THEN [body |-> ErrorBody("Image analysis failed"), store |-> st]
        ELSE [body |-> Body(TRUE, pid, "", ""),
              store |-> [st EXCEPT ![key] = product_record]]

\* what the YouTube search and the category table give the enrichment
EnrichmentVideos ==
    List(<< Obj(<< Member("video_id", <<Str("mock_video_0")>>),
                   Member("title", <<Str("yt-title")>>),
                   Member("channel_title", <<Str("Mock Channel")>>),
                   Member("relevance_score", <<Num("0.5")>>) >>) >>)
EnrichmentInsights ==
    List(<< Obj(<< Member("metric", <<Str("market_growth_rate")>>) >>) >>)

\* table.get_item(Key)['Item'], {} when the key holds nothing
get_item(st, key) == IF key \in StoreKeys THEN st[key] ELSE NoItem

\* table.update_item(Key, SET ...): the named fields are set, the others
\* kept; a key that holds nothing gets a new item with the key attributes
update_item(st, key, updates) ==
    LET old == IF st[key] = NoItem
               THEN [NoItem EXCEPT !["product_id"] = <<Str(key[1])>>,
                                   !["user_id"] = <<Str(key[2])>>]
               ELSE st[key]
    IN  [st EXCEPT ![key] = [f \in ItemFields |->
                                IF updates[f] # Absent THEN updates[f] ELSE old[f]]]

\* the data-enrichment Lambda on a direct invocation
handle_data_enrichment(parameters, env, st, timestamp) ==
    LET pid == parameters.product_id
        uid == IF parameters.user_id = "" THEN "anonymous" ELSE parameters.user_id
        campaign_info == parameters.campaign_info
        updates ==
            [NoItem EXCEPT
                !["youtube_videos"] = EnrichmentVideos,
                !["market_insights"] = EnrichmentInsights,
                !["target_demographics"] =
                    Obj(<< Member("age_range",
                               IF MemberOf(campaign_info, "target_age_range") # Absent
                               THEN MemberOf(campaign_info, "target_age_range")
                               ELSE <<Str("18-45")>>) >>),
                !["trending_keywords"] = List(<< <<Str("keyword")>> >>),
                !["content_themes"] = <<LK, RK>>,
                !["enrichment_status"] = <<Str("data_enriched")>>,
                !["updated_at"] = timestamp,
                !["enrichment_request_id"] = <<Str("enrichment-request")>>]
    IN  IF pid = ""
        THEN [body |-> ErrorBody("product_id is required"), store |-> st]
        ELSE IF get_item(st, <<pid, uid>>) = NoItem
        THEN [body |-> ErrorBody("Product not found"), store |-> st]
        \* extract_demographics calls campaign_info.get
        ELSE IF TypeOf(campaign_info) # "dict" \/ env # "ok"
        THEN [body |-> ErrorBody("Data enrichment failed"), store |-> st]
        ELSE [body |-> Body(TRUE, pid, uid, ""),
              store |-> update_item(st, <<pid, uid>>, updates)]

\* str(market).lower().replace(' ', '_') on the market names in use
MarketKey(market) ==
    CASE market = "US" -> "us"
      [] market = "Global" -> "global"
      [] OTHER -> market

\* one entry per market, keyed by the market's key
RECURSIVE MarketEntries(_)
MarketEntries(markets) ==
    IF markets = <<>> THEN <<>>
    ELSE << Member(MarketKey(ToStr(Head(markets))),
                   Obj(<< Member("market", Head(markets)) >>)) >>
         \o MarketEntries(Tail(markets))

\* market_insights keyed by market, as analyze_cultural_context builds it
CulturalInsights(target_markets) ==
    LET markets == MemberOf(target_markets, "markets")
    IN  IF markets = Absent \/ ~TruthyValue(markets)
        THEN Obj(MarketEntries(<< <<Str("Global")>> >>))
        ELSE Obj(MarketEntries(ElemsOf(markets)))

\* the cultural-intelligence Lambda on a direct invocation
handle_cultural_intelligence(parameters, env, st, timestamp) ==
    LET pid == parameters.product_id
        uid == IF parameters.user_id = "" THEN "anonymous" ELSE parameters.user_id
        target_markets == parameters.target_markets
        updates ==
            [NoItem EXCEPT
                !["market_insights"] = CulturalInsights(target_markets),
                !["communication_guidelines"] =
                    Obj(<< Member("tone", <<Str("Tech-savvy, innovative")>>) >>),
                !["cultural_sensitivity_notes"] = List(<< <<Str("note")>> >>),
                !["cultural_status"] = <<Str("culturally_enriched")>>,
                !["updated_at"] = timestamp,
                !["cultural_request_id"] = <<Str("cultural-request")>>]
    IN  IF pid = ""
        THEN [body |-> ErrorBody("product_id is required"), store |-> st]
        ELSE IF get_item(st, <<pid, uid>>) = NoItem
        THEN [body |-> ErrorBody("Product not found"), store |-> st]
        ELSE IF env # "ok"
        THEN [body |-> ErrorBody("Cultural intelligence analysis failed"), store |-> st]
        ELSE [body |-> Body(TRUE, pid, uid, ""),
              store |-> update_item(st, <<pid, uid>>, updates)]

\* invoke_lambda_sync: invocation is what lambda_client.invoke gave,
\* [raised, StatusCode, envelope, body].  A handler's own response is
\* {'statusCode', 'body'}: the body is parsed and returned.
invoke_lambda_sync(invocation) ==
    IF invocation.raised
    THEN ErrorBody("invoke raised")
    ELSE IF invocation.StatusCode # 200
    THEN ErrorBody("Lambda returned status")
    ELSE CASE invocation.envelope = "wrapped" -> invocation.body
           [] invocation.envelope = "direct" -> invocation.body
           \* any other dict is returned as it is: it has no 'success' key
           [] OTHER -> Body(FALSE, "", "", "")

\* how the world treats one Lambda invocation
LambdaEnvs == {"ok", "handler_error", "invoke_error"}

Invocation(env, body) ==
    [raised |-> env = "invoke_error", StatusCode |-> 200,
     envelope |-> "wrapped", body |-> body]

---------------------------------------------------------------------------
(* The intent parser: lambda_handler and the two tiers                     *)

\* how many agent invocations in a row the service may rate-limit
MaxRateLimited == 2

\* what invoke_agent / invoke_model did: raised, or the text of the answer
Raised == [raised |-> TRUE, text |-> <<>>]
Answer(text) == [raised |-> FALSE, text |-> text]

WrongTypesObject ==
    ObjectText(required_keys, [AiValues EXCEPT !["content_ideas"] = <<Str("ai")>>])

\* the completion of invoke_agent: the call or the iteration raised, or a
\* stream of events, each a chunk of bytes or an inline error signal
ErrorSignals == {"internalServerException", "validationException", "throttlingException"}
Chunk(bytes) == [kind |-> "chunk", bytes |-> bytes, message |-> <<>>]
Signal(kind, message) == [kind |-> kind, bytes |-> <<>>, message |-> message]
StreamRaised == [raised |-> TRUE, events |-> <<>>]
Stream(events) == [raised |-> FALSE, events |-> events]

\* lines 211-215: only the events that hold a chunk add to the text
RECURSIVE agent_response_text(_)
agent_response_text(events) ==
    IF events = <<>> THEN <<>>
    ELSE (IF Head(events).kind = "chunk" THEN Head(events).bytes ELSE <<>>)
         \o agent_response_text(Tail(events))

AgentCompletions ==
    {StreamRaised,
     Stream(<<>>),
     Stream(<<Chunk(FullObject)>>),
     Stream(<<Chunk(<<Prose, Fence>> \o Take(FullObject, 2)),
              Chunk(SubSeq(FullObject, 3, Len(FullObject)) \o <<Fence, Prose>>)>>),
     Stream(<<Chunk(WrongTypesObject)>>),
     Stream(<<Chunk(NamesList)>>),
     Stream(<<Chunk(<<Prose>>)>>)}
    \cup {Stream(<<Chunk(FullObject), Signal(kind, <<"Internal", "failure">>)>>) : kind \in ErrorSignals}
    \cup {Stream(<<Signal(kind, <<"Internal", "failure">>), Chunk(FullObject)>>) : kind \in ErrorSignals}
    \cup {Stream(<<Signal(kind, <<"Internal", "failure">>)>>) : kind \in ErrorSignals}

ModelResponses ==
    {Raised,
     Answer(FullObject),
     Answer(<<Prose, Fence>> \o FullObject \o <<Fence, Prose>>),
     Answer(WrongTypesObject),
     Answer(NamesList),
     Answer(<<Prose>>),
     Answer(FullObject \o <<Prose, LB, Prose, RB>>),
     Answer(ObjectText(required_keys \ {"market_insights"}, AiValues))}

\* request bodies
ProductInfos ==
    {Obj(<< Member("name", <<Str("Widget")>>),
            Member("description", <<Str("A widget")>>),
            Member("category", <<Str("Gadgets")>>) >>),
     <<LB, RB>>}
S3Infos ==
    {Obj(<< Member("bucket", <<Str("images")>>),
            Member("key", <<PathStr("uploads/u1/photo.jpg", <<"uploads", "u1", "photo.jpg">>)>>) >>),
     Obj(<< Member("key", <<Str("photo.jpg")>>) >>),
     <<LB, RB>>}
TargetMarkets == Obj(<< Member("markets", List(<< <<Str("US")>> >>)) >>)
CampaignObjectives ==
    {<<LB, RB>>,
     Obj(<< Member("campaign_duration", <<Str("60 days")>>) >>),
     List(<< <<Str("awareness")>> >>)}

Request(body_is_dict, product_info, s3_info, campaign_objectives) ==
    [body_is_dict |-> body_is_dict, product_info |-> product_info,
     s3_info |-> s3_info, target_markets |-> TargetMarkets,
     campaign_objectives |-> campaign_objectives]

\* a body that is not a JSON object
BadRequest == Request(FALSE, <<LB, RB>>, <<LB, RB>>, <<LB, RB>>)
Requests ==
    {BadRequest}
    \cup {Request(TRUE, p, s, c) : p \in ProductInfos, s \in S3Infos, c \in CampaignObjectives}

\* the response body lambda_handler returns; "" and None stand for a key
\* the body does not carry, statusCode 0 for no response yet
NoOutcome ==
    [statusCode |-> 0, success |-> FALSE, generation_method |-> "",
     product_id |-> "", campaign |-> None, warning |-> "", error |-> ""]

create_error_response(error_message) ==
    [NoOutcome EXCEPT !.statusCode = 400, !.error = error_message]

\* a failure that leaves the response body empty
FailureResponseEmpty(error) == NoOutcome

FailureResponse(error) ==
    [NoOutcome EXCEPT !.statusCode = 500, !.error = error]

\* a success response that never carries a warning
SuccessResponseUnwarned(generation_method, pid, campaign, warning) ==
    [NoOutcome EXCEPT !.statusCode = 200, !.success = TRUE,
                      !.generation_method = generation_method,
                      !.product_id = pid, !.campaign = campaign]

SuccessResponse(generation_method, pid, campaign, warning) ==
    [NoOutcome EXCEPT !.statusCode = 200, !.success = TRUE,
                      !.generation_method = generation_method,
                      !.product_id = pid, !.campaign = campaign,
                      !.warning = warning]

\* lines 119-147: the response after a Tier 2 synthesis attempt
SynthesisResponse(agent_synthesis_result, pid, record, campaign_objectives) ==
    LET fallback == create_fallback_campaign(record, campaign_objectives)
    IN  IF agent_synthesis_result.success
        THEN SuccessResponse("fail_safe_orchestration_with_synthesis", pid,
                             agent_synthesis_result.campaign, "")
        ELSE IF fallback.raised
        THEN FailureResponse("Intent parser failure")
        ELSE SuccessResponse("fail_safe_aggregated_data_only", pid, fallback.campaign,
                 "Campaign generated from aggregated data only, Bedrock synthesis unavailable")

\* Tier 1: one invoke_agent call, its chunks joined and handed to the extractor
try_bedrock_agent_with_tools(s3_info, completion) ==
    IF TypeOf(s3_info) # "dict" \/ completion.raised
    THEN [success |-> FALSE, campaign |-> None]
    ELSE LET campaign == extract_campaign_json(agent_response_text(completion.events))
         IN  IF Truthy(campaign)
             THEN [success |-> TRUE, campaign |-> campaign]
             ELSE [success |-> FALSE, campaign |-> None]

\* what the n-th invoke_agent call of the run gives
AgentCompletion(n) == IF n <= rate_limited THEN StreamRaised ELSE agent_final

Call(to, ok) == [to |-> to, ok |-> ok]
Calls(to) == {i \in 1..Len(calls) : calls[i].to = to}

Init ==
    /\ request \in Requests
    /\ pc = "start"
    /\ product_id = ""
    /\ user_id = ""
    /\ aggregated_data = NoItem
    /\ outcome = NoOutcome
    /\ calls = <<>>
    /\ store = [key \in StoreKeys |-> NoItem]
    /\ now = 1
    /\ rate_limited \in 0..MaxRateLimited
    /\ agent_final \in AgentCompletions
    /\ arg = <<>>
    /\ ret = None
    /\ called = "none"

\* lines 42-44: a body that is not an object is turned away
RejectRequest ==
    /\ pc = "start"
    /\ ~request.body_is_dict
    /\ outcome' = create_error_response("Invalid request format: expected JSON object")
    /\ pc' = "done"
    /\ UNCHANGED <<request, product_id, user_id, aggregated_data, calls,
                   store, now, rate_limited, agent_final, fnVars>>

\* lines 60-78: Tier 1
InvokeAgent ==
    /\ pc = "start"
    /\ request.body_is_dict
    /\ LET n == Cardinality(Calls("agent")) + 1
           agent_result == try_bedrock_agent_with_tools(request.s3_info, AgentCompletion(n))
           \* the agent, once it runs, may call its image-analysis tool,
           \* which stores a record, whatever its stream holds afterwards
           tool == handle_image_analysis(
                       [product_info |-> request.product_info, s3_info |-> request.s3_info],
                       "ok", store, uuid4(store), Timestamp(now))
       IN  /\ calls' = Append(calls, Call("agent", agent_result.success))
           /\ \E used_tool \in BOOLEAN :
                 store' = IF used_tool /\ TypeOf(request.s3_info) = "dict" /\ n > rate_limited
                          THEN tool.store ELSE store
           /\ now' = IF store' # store THEN now + 1 ELSE now
           /\ IF agent_result.success
              THEN /\ outcome' = SuccessResponse("bedrock_agent_with_tools", "",
                                                 agent_result.campaign, "")
                   /\ pc' = "done"
              ELSE /\ pc' = "image"
                   /\ UNCHANGED outcome
    /\ UNCHANGED <<request, product_id, user_id, aggregated_data,
                   rate_limited, agent_final, fnVars>>

\* a tier 2 that goes on whatever the image Lambda answered
tier2_image_step_goes_on(image_result) ==
    [success |-> TRUE, product_id |-> image_result.product_id, user_id |-> "anonymous"]

\* lines 269-277: what tier 2 makes of the image Lambda's answer
tier2_image_step(image_result) ==
    IF ~image_result.success
    THEN [success |-> FALSE, product_id |-> "", user_id |-> ""]
    ELSE [success |-> TRUE, product_id |-> image_result.product_id,
          user_id |-> IF image_result.user_id = ""
                      THEN "anonymous" ELSE image_result.user_id]

\* lines 255-277 and 97-105: Tier 2, step 1
InvokeImage ==
    /\ pc = "image"
    /\ \E env \in LambdaEnvs :
         LET ran == handle_image_analysis(
                        [product_info |-> request.product_info, s3_info |-> request.s3_info],
                        env, store, uuid4(store), Timestamp(now))
             image_result == invoke_lambda_sync(Invocation(env, ran.body))
             step == tier2_image_step(image_result)
         IN  /\ store' = IF env = "invoke_error" THEN store ELSE ran.store
             /\ now' = IF store' # store THEN now + 1 ELSE now
             /\ calls' = Append(calls, Call("image", image_result.success))
             /\ IF ~step.success
                THEN /\ outcome' = FailureResponse(
                            "Failed to generate campaign data: Image analysis failed")
                     /\ pc' = "done"
                     /\ UNCHANGED <<product_id, user_id>>
                ELSE /\ product_id' = step.product_id
                     /\ user_id' = step.user_id
                     /\ pc' = "enrich"
                     /\ UNCHANGED outcome
    /\ UNCHANGED <<request, aggregated_data, rate_limited, agent_final, fnVars>>

\* lines 279-298: Tier 2, step 2; its failure is only logged
InvokeEnrichment ==
    /\ pc = "enrich"
    /\ \E env \in LambdaEnvs :
         LET ran == handle_data_enrichment(
                        [product_id |-> product_id, user_id |-> user_id,
                         campaign_info |-> request.campaign_objectives],
                        env, store, Timestamp(now))
             enrichment_result == invoke_lambda_sync(Invocation(env, ran.body))
         IN  /\ store' = IF env = "invoke_error" THEN store ELSE ran.store
             /\ now' = IF store' # store THEN now + 1 ELSE now
             /\ calls' = Append(calls, Call("enrichment", enrichment_result.success))
    /\ pc' = "cultural"
    /\ UNCHANGED <<request, product_id, user_id, aggregated_data, outcome,
                   rate_limited, agent_final, fnVars>>

\* a tier 2 that may invoke the cultural Lambda before the enrichment Lambda
InvokeCulturalEarly ==
    /\ pc \in {"enrich", "cultural"}
    /\ \E env \in LambdaEnvs :
         LET ran == handle_cultural_intelligence(
                        [product_id |-> product_id, user_id |-> user_id,
                         target_markets |-> request.target_markets],
                        env, store, Timestamp(now))
             cultural_result == invoke_lambda_sync(Invocation(env, ran.body))
         IN  /\ store' = IF env = "invoke_error" THEN store ELSE ran.store
             /\ now' = IF store' # store THEN now + 1 ELSE now
             /\ calls' = Append(calls, Call("cultural", cultural_result.success))
             /\ user_id' = IF cultural_result.user_id = ""
                           THEN user_id ELSE cultural_result.user_id
    /\ pc' = "read"
    /\ UNCHANGED <<request, product_id, aggregated_data, outcome,
                   rate_limited, agent_final, fnVars>>

\* lines 300-322: Tier 2, step 3; its failure is only logged
InvokeCultural ==
    /\ pc = "cultural"
    /\ \E env \in LambdaEnvs :
         LET ran == handle_cultural_intelligence(
                        [product_id |-> product_id, user_id |-> user_id,
                         target_markets |-> request.target_markets],
                        env, store, Timestamp(now))
             cultural_result == invoke_lambda_sync(Invocation(env, ran.body))
         IN  /\ store' = IF env = "invoke_error" THEN store ELSE ran.store
             /\ now' = IF store' # store THEN now + 1 ELSE now
             /\ calls' = Append(calls, Call("cultural", cultural_result.success))
             /\ user_id' = IF cultural_result.user_id = ""
                           THEN user_id ELSE cultural_result.user_id
    /\ pc' = "read"
    /\ UNCHANGED <<request, product_id, aggregated_data, outcome,
                   rate_limited, agent_final, fnVars>>

\* a tier 2 that goes on to the synthesis whatever the read gave
ReadRecordGoesOn ==
    /\ pc = "read"
    /\ LET item == get_item(store, <<product_id, user_id>>)
       IN  /\ calls' = Append(calls, Call("get_item", item # NoItem))
           /\ aggregated_data' = item
    /\ pc' = "synth"
    /\ UNCHANGED <<request, product_id, user_id, outcome, store, now,
                   rate_limited, agent_final, fnVars>>

\* lines 324-353 and 97-108: Tier 2, step 4.  One get_item, without
\* ConsistentRead: it gives the item the key holds, or nothing when the read
\* is served before an acknowledged write has spread ("stale"), or raises.
ReadRecord ==
    /\ pc = "read"
    /\ \E read \in {"ok", "stale", "raise"} :
         LET item == IF read = "ok" THEN get_item(store, <<product_id, user_id>>) ELSE NoItem
         IN  /\ calls' = Append(calls, Call("get_item", item # NoItem))
             /\ aggregated_data' = item
             /\ IF read = "raise"
                THEN /\ outcome' = FailureResponse(
                            "Failed to generate campaign data: get_item raised")
                     /\ pc' = "done"
                ELSE IF item = NoItem
                THEN /\ outcome' = FailureResponse(
                            "Failed to generate campaign data: Could not retrieve product record")
                     /\ pc' = "done"
                ELSE /\ pc' = "synth"
                     /\ UNCHANGED outcome
    /\ UNCHANGED <<request, product_id, user_id, store, now,
                   rate_limited, agent_final, fnVars>>

\* lines 110-147: the second inference call and the response
Synthesize ==
    /\ pc = "synth"
    /\ \E response \in ModelResponses :
         LET agent_synthesis_result ==
                 synthesize_with_bedrock(aggregated_data, request.campaign_objectives, response)
         IN  /\ calls' = Append(calls, Call("model", ~response.raised))
             /\ outcome' = SynthesisResponse(agent_synthesis_result, product_id,
                                             aggregated_data, request.campaign_objectives)
    /\ pc' = "done"
    /\ UNCHANGED <<request, product_id, user_id, aggregated_data, store, now,
                   rate_limited, agent_final, fnVars>>

Next ==
    \/ RejectRequest
    \/ InvokeAgent
    \/ InvokeImage
    \/ InvokeEnrichment
    \/ InvokeCultural
    \/ ReadRecord
    \/ Synthesize

Spec == Init /\ [][Next]_vars

\* the handler at rest, while a helper function is studied on its own
HandlerIdle ==
    /\ request = BadRequest
    /\ pc = "idle"
    /\ product_id = ""
    /\ user_id = ""
    /\ aggregated_data = NoItem
    /\ outcome = NoOutcome
    /\ calls = <<>>
    /\ store = [key \in StoreKeys |-> NoItem]
    /\ now = 1
    /\ rate_limited = 0
    /\ agent_final = StreamRaised

---------------------------------------------------------------------------
(* The extractor applied to one text                                       *)

InitExtract ==
    /\ HandlerIdle
    /\ arg \in ExtractTexts
    /\ ret = None
    /\ called = "none"

ApplyExtract ==
    /\ called = "none"
    /\ ret' = extract_campaign_json(arg)
    /\ called' = "extract_campaign_json"
    /\ UNCHANGED <<arg, orchVars>>

NextExtract == ApplyExtract

SpecExtract == InitExtract /\ [][NextExtract]_vars

---------------------------------------------------------------------------
(* Lines 585-616 applied to one candidate                                  *)

\* the record as the image Lambda stores it, and after both enrichments
ImageRecord ==
    create_product_record(
        Obj(<< Member("name", <<Str("Widget")>>), Member("category", <<Str("Gadgets")>>) >>),
        [bucket |-> <<Str("images")>>, key |-> <<Str("photo.jpg")>>],
        Uuids[1], "image-request", Timestamp(1))
EnrichedRecord ==
    [ImageRecord EXCEPT !["youtube_videos"] = EnrichmentVideos,
                        !["market_insights"] = CulturalInsights(TargetMarkets)]
StoredRecords == {ImageRecord, EnrichedRecord}

\* what a model may put under the keys: its usual values, or an empty
\* list, an empty object or null under one of them
CandidateValues ==
    {AiValues,
     [AiValues EXCEPT !["campaigns"] = <<LK, RK>>],
     [AiValues EXCEPT !["generated_assets"] = <<LB, RB>>],
     [AiValues EXCEPT !["product"] = <<Null>>]}

Candidates ==
    {json_loads(ObjectText(required_keys \ {k}, v)).data :
        k \in required_keys, v \in CandidateValues}
    \cup {json_loads(ObjectText(required_keys, v)).data : v \in CandidateValues}
    \cup {json_loads(ObjectText({"notes"}, AiValues)).data,
          json_loads(NamesList).data,
          None}

InitReconcile ==
    /\ HandlerIdle
    /\ arg \in [campaign : Candidates,
                aggregated_record : StoredRecords,
                campaign_objectives : CampaignObjectives]
    /\ ret = SynthFailed
    /\ called = "none"

ApplyReconcile ==
    /\ called = "none"
    /\ ret' = reconcile(arg.campaign, arg.aggregated_record, arg.campaign_objectives)
    /\ called' = "reconcile"
    /\ UNCHANGED <<arg, orchVars>>

NextReconcile == ApplyReconcile

SpecReconcile == InitReconcile /\ [][NextReconcile]_vars

---------------------------------------------------------------------------
(* invoke_lambda_sync applied to one Lambda response                       *)

\* the envelopes a sub-capability Lambda answers in: its response body
\* itself ("direct"), {'statusCode', 'body'} ("wrapped"), and the agent
\* framework's {'messageVersion', 'response': {'responseBody': ...}} ("agent")
Envelopes == {"direct", "wrapped", "agent"}

GatewayBodies ==
    {Body(TRUE, pid, uid, "") : pid \in ProductIds, uid \in UserIds \cup {""}}
    \cup {ErrorBody(error) :
            error \in {"S3 key is required", "Image analysis failed",
                       "Product not found", "product_id is required"}}

InitGateway ==
    /\ HandlerIdle
    /\ arg \in [raised : BOOLEAN, StatusCode : {200, 500},
                envelope : Envelopes, body : GatewayBodies]
    /\ ret = ErrorBody("")
    /\ called = "none"

ApplyGateway ==
    /\ called = "none"
    /\ ret' = invoke_lambda_sync(arg)
    /\ called' = "invoke_lambda_sync"
    /\ UNCHANGED <<arg, orchVars>>

NextGateway == ApplyGateway

SpecGateway == InitGateway /\ [][NextGateway]_vars

---------------------------------------------------------------------------
(* create_fallback_campaign applied to one record                          *)

\* a record whose list fields are all empty
EmptyListsRecord ==
    [NoItem EXCEPT !["image_labels"] = <<LK, RK>>,
                   !["youtube_videos"] = <<LK, RK>>,
                   !["market_insights"] = <<LK, RK>>,
                   !["trending_keywords"] = <<LK, RK>>]

\* records the builder may be handed: nothing stored, empty lists, the
\* stored records, each with its labels, videos and description varied
BuilderRecords ==
    {[[[base EXCEPT !["image_labels"] = IF labels = <<>> THEN @ ELSE labels]
              EXCEPT !["youtube_videos"] = IF videos = <<>> THEN @ ELSE videos]
              EXCEPT !["product_description"] = IF description = <<>> THEN @ ELSE description] :
        base \in {NoItem, EmptyListsRecord, ImageRecord, EnrichedRecord},
        labels \in {<<>>, <<LK, RK>>, List(<< <<Str("Bottle")>> >>)},
        videos \in {<<>>, <<LK, RK>>, <<Str("none")>>},
        description \in {<<>>, <<Str("")>>, <<Null>>}}

InitBuild ==
    /\ HandlerIdle
    /\ arg \in [aggregated_record : BuilderRecords,
                campaign_objectives : CampaignObjectives]
    /\ ret = [raised |-> FALSE, campaign |-> None]
    /\ called = "none"

ApplyBuild ==
    /\ called = "none"
    /\ ret' = create_fallback_campaign(arg.aggregated_record, arg.campaign_objectives)
    /\ called' = "create_fallback_campaign"
    /\ UNCHANGED <<arg, orchVars>>

NextBuild == ApplyBuild

SpecBuild == InitBuild /\ [][NextBuild]_vars

---------------------------------------------------------------------------
(* The retrying agent invocation of src/lambda/intent_parser/handler.py    *)

\* a budget of five retries
max_retries_more == 3 + 2

\* line 229: the default of the max_retries parameter
max_retries == 3

\* how many attempts in a row the service rate-limits
MaxThrottled == 5

\* an exception: its class, its error code (ClientError only) and the words
\* of its message
Error(type, code, message) == [type |-> type, code |-> code, message |-> message]

\* 'throttling' in str(e).lower(), over the words the messages are made of
MentionsThrottling(message) ==
    \E i \in 1..Len(message) : message[i] \in {"throttling", "Throttling"}

\* lines 293-357: the first error event raises; no stream and no content raise
process_response_stream(events) ==
    LET signals == {i \in 1..Len(events) : events[i].kind \in ErrorSignals}
        first == events[Min(signals)]
    IN  IF events = <<>>
        THEN Error("Exception", "", <<"Empty", "response", "stream">>)
        ELSE IF signals # {}
        THEN Error("Exception", "",
                   (CASE first.kind = "internalServerException" -> <<"Bedrock", "agent", "error", ":">>
                      [] first.kind = "validationException" -> <<"Bedrock", "agent", "validation", "error", ":">>
                      [] OTHER -> <<"throttling", ":">>)
                   \o first.message)
        ELSE IF agent_response_text(events) = <<>>
        THEN Error("Exception", "", <<"No", "content", "received">>)
        ELSE Error("", "", <<>>)

\* what the service does: rate-limits the first attempts, by a client error
\* or by an event of the stream, then raises a client error or gives a stream
ServiceScripts ==
    [throttled : 0..MaxThrottled,
     how : {"client", "stream"},
     error : {Error("", "", <<>>),
              Error("ClientError", "AccessDeniedException", <<"Not", "authorized">>),
              Error("ClientError", "ValidationException", <<"Throttling", "policy", "invalid">>)},
     events : {<<>>,
               <<Chunk(FullObject)>>,
               <<Chunk(<<Prose>>), Signal("internalServerException", <<"Internal", "failure">>)>>,
               <<Signal("internalServerException", <<"Dependency", "throttling", "detected">>)>>,
               <<Signal("validationException", <<"Invalid", "input">>)>>}]

\* the exception one attempt ends with, Error("", "", <<>>) when it returns
invoke_agent(script, attempt) ==
    IF attempt < script.throttled
    THEN IF script.how = "client"
         THEN Error("ClientError", "ThrottlingException", <<"Rate", "exceeded">>)
         ELSE process_response_stream(<<Signal("throttlingException", <<"Rate", "exceeded">>)>>)
    ELSE IF script.error.type # ""
    THEN script.error
    ELSE process_response_stream(script.events)

InitRetry ==
    /\ HandlerIdle
    /\ arg \in ServiceScripts
    /\ ret = [attempt |-> 0, calls |-> 0, slept |-> <<>>, status |-> "running",
              error |-> Error("", "", <<>>),
              response |-> [statusCode |-> 0, error |-> <<>>]]
    /\ called = "none"

\* a backoff that grows by a fixed step
delay_linear(attempt, jitter) == 10 * (attempt + 1) + jitter

\* lines 254-257 and 272-274: base_delay = 2 ** attempt plus the jitter, in
\* tenths of a second
delay(attempt, jitter) == 10 * 2^attempt + jitter

\* lines 237-281: one iteration of the loop; random.uniform(0.1, 0.3) gives
\* a jitter of 1 to 3 tenths
Attempt ==
    /\ ret.status = "running"
    /\ ret.attempt <= max_retries
    /\ LET e == invoke_agent(arg, ret.attempt)
           retry == /\ ret.attempt < max_retries
                    /\ IF e.type = "ClientError"
                       THEN e.code = "ThrottlingException"
                       ELSE MentionsThrottling(e.message)
       IN  \E jitter \in 1..3 :
             ret' = IF e.type = ""
                    THEN [ret EXCEPT !.calls = @ + 1, !.status = "returned"]
                    ELSE IF retry
                    THEN [ret EXCEPT !.calls = @ + 1, !.attempt = @ + 1,
                                     !.slept = Append(@, delay(ret.attempt, jitter))]
                    ELSE [ret EXCEPT !.calls = @ + 1, !.status = "raised", !.error = e]
    /\ called' = "invoke_bedrock_agent_with_retry"
    /\ UNCHANGED <<arg, orchVars>>

\* lambda_handler lines 74-114: the response made of what the invocation did
Respond ==
    /\ ret.status \in {"returned", "raised"}
    /\ called = "invoke_bedrock_agent_with_retry"
    /\ ret' = [ret EXCEPT !.response =
                 IF ret.status = "returned"
                 THEN [statusCode |-> 200, error |-> <<>>]
                 ELSE IF ret.error.type = "ClientError"
                 THEN [statusCode |-> 500,
                       error |-> <<"Bedrock", "invocation", "failed", ":">> \o ret.error.message]
                 ELSE [statusCode |-> 500,
                       error |-> <<"Internal", "server", "error", ":">> \o ret.error.message]]
    /\ called' = "lambda_handler"
    /\ UNCHANGED <<arg, orchVars>>

NextRetry == Attempt \/ Respond

SpecRetry == InitRetry /\ [][NextRetry]_vars

---------------------------------------------------------------------------
(* The campaign-status workflow of src/lambda: the intent parser, the      *)
(* async visual processor and the status endpoint                          *)

\* campaign_status/handler.py lines 140-153: status_progress.get(status, 0)
calculate_progress(status) ==
    CASE status = "processing" -> 20
      [] status = "analysis_completed" -> 60
      [] status = "generating_visuals" -> 80
      [] status = "completed" -> 100
      [] status = "visual_generation_failed" -> 60
      [] OTHER -> 0

\* put_item / update_item of a status on the record of a campaign (update_item
\* makes the record when there is none); a write that raises is only logged.
\* The table keeps, per campaign, the statuses written in turn.
put_status(table, campaign_id, status, written) ==
    IF written THEN [table EXCEPT ![campaign_id] = Append(@, status)] ELSE table

InitStatus ==
    /\ HandlerIdle
    /\ arg \in [{"c1", "c2"} -> {"create_basic_campaign", "create_comprehensive_campaign"}]
    /\ ret = [table |-> [campaign_id \in {"c1", "c2"} |-> <<>>],
              queue |-> <<>>, returned |-> {}, handled |-> {}, lost |-> FALSE]
    /\ called = "none"

\* intent parser lambda_handler lines 67-114, for a valid request: the
\* status record, the agent invocation, the status update and the event
IntentParser(campaign_id) ==
    /\ campaign_id \notin ret.returned
    /\ \E created \in BOOLEAN, agent \in {"ok", "raise"},
          updated \in BOOLEAN, emitted \in BOOLEAN :
         LET processing == put_status(ret.table, campaign_id, "processing", created)
             comprehensive == arg[campaign_id] = "create_comprehensive_campaign"
         IN  ret' = [ret EXCEPT
                 !.table = IF agent = "raise" THEN processing
                           ELSE put_status(processing, campaign_id,
                                           IF comprehensive THEN "awaiting_assets"
                                           ELSE "completed",
                                           updated),
                 !.queue = IF agent = "ok" /\ comprehensive /\ emitted
                           THEN Append(@, campaign_id) ELSE @,
                 !.returned = @ \cup {campaign_id},
                 !.lost = @ \/ ~created \/ (agent = "ok" /\ ~updated)]
    /\ called' = "intent_parser"
    /\ UNCHANGED <<arg, orchVars>>

\* async_visual_processor lines 20-21 and 35-76: the records in turn; a
\* record whose generator raises has its failure written and raises again,
\* which ends the loop
RECURSIVE process_records(_, _, _)
process_records(table, records, outcomes) ==
    IF records = <<>> THEN table
    ELSE LET campaign_id == Head(records)
             written == Head(outcomes).written
             generating == put_status(table, campaign_id, "generating_visuals", written)
         IN  IF Head(outcomes).generator = "ok"
             THEN process_records(put_status(generating, campaign_id, "completed", written),
                                  Tail(records), Tail(outcomes))
             ELSE put_status(generating, campaign_id, "visual_generation_failed", written)

\* async_visual_processor lambda_handler lines 11-33 on one batch of the
\* queue; it returns 200 or 500, so the batch leaves the queue either way
VisualProcessor ==
    /\ ret.queue # <<>>
    /\ \E n \in 1..Len(ret.queue) :
       \E outcomes \in [1..n -> [generator : {"ok", "raise"}, written : BOOLEAN]] :
         ret' = [ret EXCEPT
                 !.table = process_records(@, SubSeq(ret.queue, 1, n), outcomes),
                 !.queue = SubSeq(@, n + 1, Len(@)),
                 !.handled = @ \cup {ret.queue[i] : i \in 1..n},
                 !.lost = @ \/ \E i \in 1..n : ~outcomes[i].written]
    /\ called' = "async_visual_processor"
    /\ UNCHANGED <<arg, orchVars>>

NextStatus == (\E campaign_id \in {"c1", "c2"} : IntentParser(campaign_id)) \/ VisualProcessor

SpecStatus == InitStatus /\ [][NextStatus]_vars

---------------------------------------------------------------------------
(* Properties                                                              *)

\* the validity predicate: the seven keys, lists for content_ideas,
\* campaigns and related_youtube_videos, objects for the others
ContainerType(key) ==
    IF key \in {"content_ideas", "campaigns", "related_youtube_videos"}
    THEN "list" ELSE "dict"

ValidCampaign(campaign) ==
    /\ campaign.t = "dict"
    /\ \A key \in required_keys :
          /\ campaign.items[key] # Absent
          /\ TypeOf(campaign.items[key]) = ContainerType(key)

ImageSucceeded == \E i \in Calls("image") : calls[i].ok
ImageFailed == \E i \in Calls("image") : ~calls[i].ok
EnrichmentFailed == \E i \in Calls("enrichment") : ~calls[i].ok
CulturalFailed == \E i \in Calls("cultural") : ~calls[i].ok
RecordAbsent == \E i \in Calls("get_item") : ~calls[i].ok
NoTier2Call == \A i \in 1..Len(calls) : calls[i].to = "agent"

\* C1: every campaign returned to the caller, whichever tier produced it,
\* has the seven required keys, each with its container type.
C1_ReturnedCampaignIsValid ==
    (pc = "done" /\ outcome.success) => ValidCampaign(outcome.campaign)

PopulatedOutcome ==
    /\ outcome.statusCode \in {200, 400, 500}
    /\ outcome.success =>
          /\ outcome.statusCode = 200
          /\ outcome.campaign # None
          /\ outcome.generation_method # ""
    /\ ~outcome.success =>
          /\ outcome.statusCode \in {400, 500}
          /\ outcome.error # ""
          /\ outcome.campaign = None

\* the external calls a run has made when it stands before each step
CallsBefore(step) ==
    CASE step = "start" -> 0
      [] step = "image" -> 1
      [] step = "enrich" -> 2
      [] step = "cultural" -> 3
      [] step = "read" -> 4
      [] step = "synth" -> 5

C3_FailureOnlyFromImageOrAbsentRecord ==
    (pc = "done" /\ request.body_is_dict /\ ~outcome.success) =>
        (ImageFailed \/ RecordAbsent)

\* C4: rate-limited on attempts 1 and 2 and answered with a valid campaign
\* on attempt 3, the handler returns the Tier 1 tag and makes no Tier 2 call.
C4_RetryTransparency ==
    (/\ pc = "done"
     /\ request.body_is_dict
     /\ rate_limited = 2
     /\ agent_final = Stream(<<Chunk(FullObject)>>)) =>
        (/\ outcome.generation_method = "bedrock_agent_with_tools"
         /\ NoTier2Call)

\* C5: once the image Lambda has failed, the run has ended in a failure
\* response and neither the enrichment Lambda, the cultural Lambda, the
\* table read nor the second inference call has been made.
C5_ImageFailureFailsFast ==
    ImageFailed =>
        /\ pc = "done"
        /\ ~outcome.success
        /\ outcome.statusCode = 500
        /\ Calls("enrichment") = {}
        /\ Calls("cultural") = {}
        /\ Calls("get_item") = {}
        /\ Calls("model") = {}

\* Tier 1 gave no campaign, the image Lambda was invoked and failed
C5_Witness ==
    /\ ImageFailed
    /\ pc = "done"
    /\ Calls("agent") # {}

\* C6: when the image Lambda succeeded and the enrichment and cultural
\* Lambdas both failed, the run ends in success with a valid campaign,
\* whatever the shape of the S3 key.
C6_DegradesGracefully ==
    (pc = "done" /\ ImageSucceeded /\ EnrichmentFailed /\ CulturalFailed) =>
        (outcome.success /\ ValidCampaign(outcome.campaign))

\* C7: whatever the extractor returns is an object that holds every
\* required key.
C7_SchemaGatedExtraction ==
    (called = "extract_campaign_json" /\ ret # None) =>
        /\ ret.t = "dict"
        /\ \A key \in required_keys : ret.items[key] # Absent

\* the index of the "}" closing the brace open at nesting depth, scanning
\* from j; 0 when it is never closed
RECURSIVE MatchingBrace(_, _, _)
MatchingBrace(text, j, depth) ==
    IF j > Len(text) THEN 0
    ELSE IF text[j].k = "{" THEN MatchingBrace(text, j + 1, depth + 1)
    ELSE IF text[j].k = "}"
         THEN IF depth = 1 THEN j ELSE MatchingBrace(text, j + 1, depth - 1)
    ELSE MatchingBrace(text, j + 1, depth)

\* the first balanced-brace span of the text, <<>> when there is none
FirstBalancedSpan(text) ==
    LET opens == BracePositions(text, "{")
    IN  IF opens = {} THEN <<>>
        ELSE LET close == MatchingBrace(text, Min(opens) + 1, 1)
             IN  IF close = 0 THEN <<>> ELSE SubSeq(text, Min(opens), close)

\* C8: when the whole text is not accepted, the extractor returns the object
\* spelled by the first balanced-brace span whenever that span parses to an
\* object with every required key, braces in later commentary or not.
C8_FirstBalancedSpanRecovered ==
    LET direct == json_loads(arg)
        inner == json_loads(FirstBalancedSpan(arg))
    IN  (/\ called = "extract_campaign_json"
         /\ ~direct.ok
         /\ inner.ok
         /\ inner.data.t = "dict"
         /\ HasAllRequiredKeys(inner.data)) =>
            ret = inner.data

BuiltSection(key) ==
    create_fallback_campaign(aggregated_data, request.campaign_objectives).campaign.items[key]

FromBuilder(key) ==
    /\ outcome.campaign.t = "dict"
    /\ outcome.campaign.items[key] # Absent
    /\ outcome.campaign.items[key] = BuiltSection(key)

\* C10: a Tier 2 success is tagged fail_safe_orchestration_with_synthesis
\* only if no key of the campaign came from the fallback builder, and is
\* tagged fail_safe_aggregated_data_only with a warning whenever one did.
C10_MethodTagTellsTheSource ==
    (/\ pc = "done"
     /\ outcome.success
     /\ outcome.generation_method # "bedrock_agent_with_tools") =>
        /\ outcome.generation_method = "fail_safe_orchestration_with_synthesis" =>
              \A key \in required_keys : ~FromBuilder(key)
        /\ (\E key \in required_keys : FromBuilder(key)) =>
              /\ outcome.generation_method = "fail_safe_aggregated_data_only"
              /\ outcome.warning # ""

\* the second inference call was made and raised (or timed out)
ModelRaised == \E i \in Calls("model") : ~calls[i].ok

\* C11: when the second inference call raises after Tier 1 failed, the image
\* Lambda succeeded and the record was read, the returned campaign is the
\* fallback campaign of the record read, tagged fail_safe_aggregated_data_only
\* and with a warning.
C11_NoCandidateGivesBuilderOutput ==
    (pc = "done" /\ ImageSucceeded /\ ModelRaised) =>
        /\ outcome.success
        /\ outcome.campaign =
              create_fallback_campaign(aggregated_data, request.campaign_objectives).campaign
        /\ outcome.campaign # None
        /\ outcome.generation_method = "fail_safe_aggregated_data_only"
        /\ outcome.warning # ""

\* the order in which one run makes its external calls
CallOrder == <<"agent", "image", "enrichment", "cultural", "get_item", "model">>

\* C12: the external calls of a run are a prefix of the fixed order, one
\* made per step after the previous one returned, and a run whose Tier 1
\* call gave a campaign makes no other call.
C12_CallsInFixedOrder ==
    /\ Len(calls) <= Len(CallOrder)
    /\ \A i \in 1..Len(calls) : calls[i].to = CallOrder[i]
    /\ (\E i \in Calls("agent") : calls[i].ok) => Len(calls) = 1

\* a run that went through all six calls
C12_Witness ==
    /\ pc = "done"
    /\ Len(calls) = 6
    /\ calls[6].to = "model"

\* the item this run's record key holds
RunItem == get_item(store, <<product_id, user_id>>)

\* C17: once the enrichment and then the cultural Lambda have succeeded, the
\* fields the enrichment wrote still hold its values, market_insights
\* included, and the fields the image Lambda wrote still hold theirs.
C17_UpdatesArePartialMerges ==
    ((\E i \in Calls("enrichment") : calls[i].ok) /\ (\E i \in Calls("cultural") : calls[i].ok)) =>
        /\ RunItem["youtube_videos"] = EnrichmentVideos
        /\ RunItem["market_insights"] = EnrichmentInsights
        /\ RunItem["enrichment_status"] = <<Str("data_enriched")>>
        /\ RunItem["analysis_status"] = <<Str("image_analyzed")>>
        /\ RunItem["cultural_status"] = <<Str("culturally_enriched")>>

\* C19: when the read finds no record after the image Lambda succeeded, the
\* run ends in an explicit failure: no second inference call, no campaign.
C19_AbsentRecordFailsTheRun ==
    (ImageSucceeded /\ RecordAbsent) =>
        /\ pc = "done"
        /\ ~outcome.success
        /\ outcome.statusCode = 500
        /\ outcome.error # ""
        /\ outcome.campaign = None
        /\ Calls("model") = {}

\* the image Lambda stored the record, the read at the orchestrator's key
\* found nothing
C19_Witness ==
    /\ pc = "done"
    /\ ImageSucceeded
    /\ RecordAbsent
    /\ \E key \in StoreKeys : store[key] # NoItem

\* C18: whatever envelope a Lambda's response arrives in, the gateway
\* returns that response's success, product_id, user_id and error, so every
\* envelope of one response gives one result.
C18_EnvelopesGiveOneResult ==
    (called = "invoke_lambda_sync" /\ ~arg.raised /\ arg.StatusCode = 200) =>
        ret = arg.body

\* C20: the fallback builder raises nothing and fills every required key,
\* for any record, one with no fields or with empty lists included, and for
\* campaign objectives given as an object or as a list of strings.
C20_BuilderNeverFails ==
    called = "create_fallback_campaign" =>
        /\ ~ret.raised
        /\ ret.campaign.t = "dict"
        /\ \A key \in required_keys : ret.campaign.items[key] # Absent

\* C13: when the Tier 1 stream holds an inline error signal, before, after
\* or without chunks, Tier 1 fails: the agent call is not a success and no
\* response carries the Tier 1 tag.
HasSignal(completion) ==
    \E i \in 1..Len(completion.events) : completion.events[i].kind \in ErrorSignals

C13_ErrorSignalFailsTier1 ==
    (Calls("agent") # {} /\ HasSignal(AgentCompletion(1))) =>
        /\ ~calls[1].ok
        /\ outcome.generation_method # "bedrock_agent_with_tools"

\* C14: the retrying invocation calls the service at most four times, and
\* when the service rate-limits every one of them it ends by raising after
\* the fourth call.
C14_AtMostFourCalls ==
    /\ ret.calls <= 4
    /\ (ret.status # "running" /\ arg.throttled >= 4) =>
           (ret.status = "raised" /\ ret.calls = 4)

C14_Witness ==
    called = "lambda_handler" /\ arg.throttled >= 4 /\ ret.status = "raised" /\ ret.calls = 4

\* C15: an attempt that fails without a rate-limit signal (a client error
\* other than ThrottlingException, an internal or validation error event, an
\* empty stream) is raised after that one attempt, with no delay.
C15_OnlyRateLimitIsRetried ==
    (/\ ret.status # "running"
     /\ arg.throttled = 0
     /\ \/ arg.error.type # ""
        \/ arg.events = <<>>
        \/ \E i \in 1..Len(arg.events) :
              arg.events[i].kind \in {"internalServerException", "validationException"}) =>
        /\ ret.status = "raised"
        /\ ret.calls = 1
        /\ ret.slept = <<>>

\* C16: when the rate-limit outlasts the retries, the handler's response is
\* not the upstream rate-limit error: it does not carry the upstream message.
C16_RateLimitIsNotSurfaced ==
    (called = "lambda_handler" /\ arg.throttled >= 4) =>
        \A i \in 1..Len(ret.response.error) : ret.response.error[i] # "exceeded"

\* C21: a run in which the image step succeeded and whose record is in the
\* table under the key of the read does not end with the record reported
\* as not retrievable.
C21_StaleReadDoesNotFailTheRun ==
    (pc = "done" /\ ImageSucceeded /\ RunItem # NoItem) =>
        outcome.error # "Failed to generate campaign data: Could not retrieve product record"

\* C22: a candidate that holds every required key comes back as it is:
\* the result is a success whose campaign equals the candidate, key by key
\* and value by value, empty and null values included.
C22_CompleteCandidateUnchanged ==
    (/\ called = "reconcile"
     /\ arg.campaign.t = "dict"
     /\ \A key \in required_keys : arg.campaign.items[key] # Absent) =>
        /\ ret.success
        /\ ret.campaign = arg.campaign

C22_Witness ==
    /\ called = "reconcile"
    /\ arg.campaign.t = "dict"
    /\ \A key \in required_keys : arg.campaign.items[key] # Absent
    /\ arg.campaign.items["campaigns"] = <<LK, RK>>
    /\ ret.campaign = arg.campaign

\* C23: the delay slept after 0-based attempt a lies between 2^a + 0.1 and
\* 2^a + 0.3 seconds, each delay is longer than the one before, and the
\* delays of one invocation add up to 7.9 seconds at most (tenths here).
RECURSIVE TotalSlept(_)
TotalSlept(slept) == IF slept = <<>> THEN 0 ELSE Head(slept) + TotalSlept(Tail(slept))

C23_BackoffDelays ==
    /\ \A i \in 1..Len(ret.slept) :
          /\ ret.slept[i] >= 10 * 2^(i - 1) + 1
          /\ ret.slept[i] <= 10 * 2^(i - 1) + 3
    /\ \A i \in 1..(Len(ret.slept) - 1) : ret.slept[i] < ret.slept[i + 1]
    /\ TotalSlept(ret.slept) <= 79

C23_Witness ==
    /\ called = "lambda_handler"
    /\ ret.status = "raised"
    /\ ret.slept = <<13, 23, 43>>

\* C24: once the image step has succeeded, the key the handler holds for
\* the run, which it hands to the enrichment and cultural Lambdas and reads
\* in step 4, is a key under which the table holds the record.
C24_RunKeyIsTheStoredKey ==
    ImageSucceeded => store[<<product_id, user_id>>] # NoItem

\* C25: one run leaves at most one record in the table, also when the
\* agent of Tier 1 called its image-analysis tool before Tier 1 failed.
C25_AtMostOneRecordPerRun ==
    Cardinality({key \in StoreKeys : store[key] # NoItem}) <= 1

\* C26: in every response the handler returns, a warning is there exactly
\* when the method is fail_safe_aggregated_data_only, a campaign exactly
\* when success is true, an error exactly when success is false, and the
\* method is bedrock_agent_with_tools exactly when Tier 1 gave a campaign.
C26_OutcomeFieldsAgree ==
    pc = "done" =>
        /\ (outcome.warning # "") <=> (outcome.generation_method = "fail_safe_aggregated_data_only")
        /\ (outcome.campaign # None) <=> outcome.success
        /\ (outcome.error # "") <=> ~outcome.success
        /\ (outcome.generation_method = "bedrock_agent_with_tools")
              <=> (\E i \in Calls("agent") : calls[i].ok)

C26_Witness ==
    /\ pc = "done"
    /\ outcome.success
    /\ outcome.generation_method = "fail_safe_aggregated_data_only"
    /\ outcome.warning # ""
    /\ outcome.campaign # None
    /\ outcome.error = ""

\* the status the record of a campaign holds
StatusOf(campaign_id) ==
    IF ret.table[campaign_id] = <<>> THEN "none"
    ELSE ret.table[campaign_id][Len(ret.table[campaign_id])]

\* C27: a record created as processing does not stay processing once the
\* intent parser has returned and no event of the campaign is waiting.
C27_ProcessingIsLeft ==
    \A campaign_id \in {"c1", "c2"} :
        (/\ campaign_id \in ret.returned
         /\ \A i \in 1..Len(ret.queue) : ret.queue[i] # campaign_id) =>
            StatusOf(campaign_id) # "processing"

\* C28: from one status of a campaign to the next the progress of the status
\* endpoint does not go down, and it is 100 exactly for completed.
C28_ProgressNeverDecreases ==
    \A campaign_id \in {"c1", "c2"} :
        LET statuses == ret.table[campaign_id]
        IN  /\ \A i \in 1..(Len(statuses) - 1) :
                  calculate_progress(statuses[i]) <= calculate_progress(statuses[i + 1])
            /\ \A i \in 1..Len(statuses) :
                  (calculate_progress(statuses[i]) = 100) <=> (statuses[i] = "completed")

\* C29: every campaign of a batch the visual processor was given has left
\* awaiting_assets for completed or visual_generation_failed.
C29_WholeBatchProcessed ==
    \A campaign_id \in ret.handled :
        StatusOf(campaign_id) \in {"completed", "visual_generation_failed"}

\* C30: events are emitted for comprehensive campaigns only, and
\* generating_visuals is written only on a record whose status is
\* awaiting_assets, never on a basic campaign's completed.
C30_EventsFollowAwaitingAssets ==
    /\ \A i \in 1..Len(ret.queue) : arg[ret.queue[i]] = "create_comprehensive_campaign"
    /\ \A campaign_id \in ret.handled : arg[campaign_id] = "create_comprehensive_campaign"
    /\ \A campaign_id \in {"c1", "c2"} :
          \A i \in 1..Len(ret.table[campaign_id]) :
              ret.table[campaign_id][i] = "generating_visuals" =>
                  (i > 1 /\ ret.table[campaign_id][i - 1] = "awaiting_assets")

====
